---- MODULE Spec2Model ----
(***************************************************************************)
(* Browser session and tab lifecycle manager of puppeteer-mcp-server       *)
(* (src/src/browser/connection.ts).                                        *)
(*                                                                         *)
(* The module-level state of connection.ts (browser, currentPage,          *)
(* disconnectHandlerAttached) is modelled together with the part of the    *)
(* browser engine the code observes: which browsers are connected, the     *)
(* open pages of each browser in engine order, and the 'disconnected'      *)
(* listeners registered on each browser.  Every exported async function is *)
(* split at its awaits of engine round trips: the code between two awaits  *)
(* runs atomically (one JavaScript job), and the 'disconnected' event may  *)
(* be delivered while a call is suspended at an await.                     *)
(*                                                                         *)
(* Browsers and pages are numbered from 1; 0 stands for undefined.         *)
(***************************************************************************)
EXTENDS Integers, Sequences, FiniteSets, TLC

\* Bounds of the model: browsers that may be launched, pages that may be created.
MaxBrowsers == 2
MaxPages == 3

Browsers == 1..MaxBrowsers
PageIds == 1..MaxPages
\* Callers of the exported functions; the serialized specification runs caller 1.
Procs == {1, 2}
\* tabIndex arguments tried by selectTab / closeTab (tabIndex: number)
TabIndices == -1..MaxPages

VARIABLES
    browser,                    \* let browser: Browser | undefined
    currentPage,                \* let currentPage: Page | undefined
    disconnectHandlerAttached,  \* let disconnectHandlerAttached
    launched,                   \* engine: number of browsers launched so far
    connected,                  \* engine: Browser.connected of each browser
    pages,                      \* engine: open pages of each browser, in order
    created,                    \* engine: number of pages created so far
    owner,                      \* engine: the browser each page belongs to
    handlers,                   \* engine: 'disconnected' listeners on each browser
    pc,                         \* the await each caller is suspended at
    loc,                        \* the suspended call's arguments and locals
    res,                        \* what each caller's last call returned or threw
    bound,                      \* the page bound by the last remote attach
    dom,                        \* the document of the page handed to extraction
    ext,                        \* the last interactable-elements extraction
    call,                       \* the tool call handleToolCall is working on
    listeners                   \* engine: 'console' listeners on each page

vars == <<browser, currentPage, disconnectHandlerAttached, launched, connected,
          pages, created, owner, handlers, pc, loc, res, bound, dom, ext,
          call, listeners>>

\* what the functions of connection.ts never touch
outside == <<bound, dom, ext, call, listeners>>

engine == <<launched, connected, pages, created, owner, handlers>>
globals == <<browser, currentPage, disconnectHandlerAttached>>

NoLoc == [tabIndex |-> 0, pages |-> <<>>, page |-> 0, target |-> 0, url |-> FALSE,
          i |-> 0, tabs |-> <<>>]
\* tabs: the list getAllTabs returned; warned: the tab numbers logged at line 57
NoRes == [op |-> "none", st |-> "none", val |-> 0, idx |-> 0, snap |-> <<>>,
          wasCur |-> FALSE, cur |-> 0, brw |-> 0, launch |-> 0, fresh |-> FALSE,
          tabs |-> <<>>, warned |-> {}]

\* Page.isClosed(): a page is open while its browser lists it.
IsOpen(pg) == pg # 0 /\ owner[pg] # 0 /\ \E k \in 1..Len(pages[owner[pg]]) : pages[owner[pg]][k] = pg
isClosed(pg) == ~IsOpen(pg)

\* JavaScript array read arr[k] with a 0-based index: undefined outside the array.
At(arr, k) == IF k >= 0 /\ k < Len(arr) THEN arr[k + 1] ELSE 0

Remove(arr, pg) == SelectSeq(arr, LAMBDA x : x # pg)

\* no extraction has run
NoExt == [includeHidden |-> FALSE, maxElements |-> 0, ran |-> FALSE, out |-> <<>>,
          at |-> <<>>, ranked |-> <<>>, again |-> FALSE]

\* a page without elements
EmptyDocument == [els |-> <<>>, parent |-> <<>>]

\* handleToolCall is not running; name, outcome, shown, raised and rejected
\* are those of its last run
NoCall == [name |-> "none", tabIndex |-> 0, url |-> FALSE, selector |-> FALSE,
           stage |-> "idle", step |-> 0, page |-> 0, selected |-> 0,
           outcome |-> "none",
           shown |-> <<>>, tabs |-> <<>>, raised |-> FALSE, rejected |-> FALSE]

Init ==
    /\ browser = 0
    /\ currentPage = 0
    /\ disconnectHandlerAttached = FALSE
    /\ launched = 0
    /\ connected = [b \in Browsers |-> FALSE]
    /\ pages = [b \in Browsers |-> <<>>]
    /\ created = 0
    /\ owner = [pg \in PageIds |-> 0]
    /\ handlers = [b \in Browsers |-> 0]
    /\ pc = [p \in Procs |-> "idle"]
    /\ loc = [p \in Procs |-> NoLoc]
    /\ res = [p \in Procs |-> NoRes]
    /\ bound = 0
    /\ dom = EmptyDocument
    /\ ext = NoExt
    /\ call = NoCall
    /\ listeners = [pg \in PageIds |-> 0]

\* One step of caller p: where it is suspended next, its locals, its outcome.
Step(p, at, l, r) ==
    /\ pc' = [pc EXCEPT ![p] = at]
    /\ loc' = [loc EXCEPT ![p] = l]
    /\ res' = [res EXCEPT ![p] = r]
    /\ UNCHANGED outside

\* The call of caller p returns (st = "ok", val the value) or throws (st the
\* error); cur and brw record currentPage and browser as the call leaves them.
Finish(p, r, st, val, cur, brw) ==
    Step(p, "idle", NoLoc, [r EXCEPT !.st = st, !.val = val, !.cur = cur, !.brw = brw])

Pending(op) == [NoRes EXCEPT !.op = op, !.st = "pending"]

(***************************************************************************)
(* The engine's 'disconnected' event of browser b and the listener of      *)
(* ensureBrowser (connection.ts 18-23).                                    *)
(***************************************************************************)
\* The listener registered at line 18 runs iff it was registered on b.
ListenerRuns(b) == handlers[b] > 0

\* the listener without line 21 (currentPage = undefined)
Disconnect_ListenerKeepsCurrentPage(b) ==
    /\ connected[b]
    /\ connected' = [connected EXCEPT ![b] = FALSE]
    /\ pages' = [pages EXCEPT ![b] = <<>>]
    /\ IF ListenerRuns(b)
         THEN /\ browser' = 0
              /\ disconnectHandlerAttached' = FALSE
              /\ UNCHANGED currentPage
         ELSE UNCHANGED globals
    /\ UNCHANGED <<launched, created, owner, handlers, pc, loc, res, outside>>

Disconnect(b) ==
    /\ connected[b]
    /\ connected' = [connected EXCEPT ![b] = FALSE]
    /\ pages' = [pages EXCEPT ![b] = <<>>]
    /\ IF ListenerRuns(b)
         THEN /\ browser' = 0
              /\ currentPage' = 0
              /\ disconnectHandlerAttached' = FALSE
         ELSE UNCHANGED globals
    /\ UNCHANGED <<launched, created, owner, handlers, pc, loc, res, outside>>

(***************************************************************************)
(* ensureBrowser (connection.ts 10-39)                                     *)
(***************************************************************************)
\* line 12 with the isClosed() test inverted
NeedsLaunch_ClosedTestInverted ==
    \/ browser = 0
    \/ ~connected[browser]
    \/ currentPage = 0
    \/ ~isClosed(currentPage)

\* line 12
NeedsLaunch ==
    \/ browser = 0
    \/ ~connected[browser]
    \/ currentPage = 0
    \/ isClosed(currentPage)

\* No browser exists: none is held and none is running.
NoBrowserExists == browser = 0 /\ \A b \in Browsers : ~connected[b]

\* lines 10-14 and 38: the liveness test; return currentPage, or start a launch
EB_Start(p) ==
    /\ pc[p] = "idle"
    /\ IF NeedsLaunch
         THEN Step(p, "eb_launch", NoLoc,
                   [Pending("ensureBrowser") EXCEPT !.fresh = NoBrowserExists])
         ELSE Finish(p, Pending("ensureBrowser"), "ok", currentPage, currentPage, browser)
    /\ UNCHANGED <<globals, engine>>

\* line 17
AttachNeeded == ~disconnectHandlerAttached

\* lines 14-27: the launch resolves with a new browser (with one page, or with
\* none); browser is assigned, the listener registered, browser.pages() called
EB_LaunchDone(p) ==
    /\ pc[p] = "eb_launch"
    /\ launched < MaxBrowsers
    /\ created < MaxPages
    /\ \E n0 \in {0, 1} :
         LET b == launched + 1
             pg == created + 1
         IN  /\ launched' = b
             /\ connected' = [connected EXCEPT ![b] = TRUE]
             /\ created' = created + n0
             /\ pages' = IF n0 = 1 THEN [pages EXCEPT ![b] = <<pg>>] ELSE pages
             /\ owner' = IF n0 = 1 THEN [owner EXCEPT ![pg] = b] ELSE owner
             /\ browser' = b
             /\ handlers' = IF AttachNeeded THEN [handlers EXCEPT ![b] = @ + 1] ELSE handlers
             /\ disconnectHandlerAttached' = TRUE
             /\ UNCHANGED currentPage
             /\ Step(p, "eb_pages", [NoLoc EXCEPT !.target = b], [res[p] EXCEPT !.launch = b])

\* line 14: puppeteer.launch rejects; nothing was assigned
EB_LaunchFail(p) ==
    /\ pc[p] = "eb_launch"
    /\ Finish(p, res[p], "LaunchFailure", 0, currentPage, browser)
    /\ UNCHANGED <<globals, engine>>

\* lines 27-31: browser.pages() resolves; currentPage = pages[0], or newPage()
\* is called on the browser variable as it is now
EB_PagesDone(p) ==
    /\ pc[p] = "eb_pages"
    /\ connected[loc[p].target]
    /\ LET ps == pages[loc[p].target]
       IN  IF Len(ps) > 0
             THEN /\ currentPage' = ps[1]
                  /\ Step(p, "eb_setjs", [loc[p] EXCEPT !.page = ps[1]], res[p])
             ELSE /\ UNCHANGED currentPage
                  /\ IF browser = 0
                       THEN Finish(p, res[p], "TypeError", 0, currentPage, browser)
                       ELSE Step(p, "eb_newpage", [loc[p] EXCEPT !.target = browser], res[p])
    /\ UNCHANGED <<browser, disconnectHandlerAttached, engine>>

\* lines 28-32: newPage() resolves; currentPage is the new page
EB_NewPageDone(p) ==
    /\ pc[p] = "eb_newpage"
    /\ connected[loc[p].target]
    /\ created < MaxPages
    /\ LET pg == created + 1
           b == loc[p].target
       IN  /\ created' = pg
           /\ pages' = [pages EXCEPT ![b] = Append(@, pg)]
           /\ owner' = [owner EXCEPT ![pg] = b]
           /\ currentPage' = pg
           /\ Step(p, "eb_setjs", [loc[p] EXCEPT !.page = pg], res[p])
    /\ UNCHANGED <<browser, disconnectHandlerAttached, launched, connected, handlers>>

\* lines 32-33: setJavaScriptEnabled resolves; setUserAgent is called on
\* currentPage as it is now
EB_SetJsDone(p) ==
    /\ pc[p] = "eb_setjs"
    /\ IsOpen(loc[p].page)
    /\ IF currentPage = 0
         THEN Finish(p, res[p], "TypeError", 0, currentPage, browser)
         ELSE Step(p, "eb_setua", [loc[p] EXCEPT !.page = currentPage], res[p])
    /\ UNCHANGED <<globals, engine>>

\* lines 33-38: setUserAgent resolves; return currentPage!
EB_SetUaDone(p) ==
    /\ pc[p] = "eb_setua"
    /\ IsOpen(loc[p].page)
    /\ Finish(p, res[p], "ok", currentPage, currentPage, browser)
    /\ UNCHANGED <<globals, engine>>

(***************************************************************************)
(* getAllTabs (connection.ts 41-62)                                        *)
(***************************************************************************)
\* line 54 with the entry numbered by its place in the result
TabEntry_NumberedByResult(pg, i, tabs) == [page |-> pg, index |-> Len(tabs)]

\* line 54: the entry pushed for pages[i] (url and title are not modelled)
TabEntry(pg, i, tabs) == [page |-> pg, index |-> i]

\* lines 42-46
LT_Start(p) ==
    /\ pc[p] = "idle"
    /\ IF browser = 0
         THEN Finish(p, Pending("getAllTabs"), "NotInitialized", 0, currentPage, browser)
         ELSE Step(p, "lt_pages", [NoLoc EXCEPT !.target = browser], Pending("getAllTabs"))
    /\ UNCHANGED <<globals, engine>>

\* lines 61 and 49-53: the loop is over, or the reads of pages[i] are started
LT_Loop(p, l, r) ==
    IF l.i < Len(l.pages)
      THEN Step(p, "lt_read", [l EXCEPT !.page = At(l.pages, l.i)], r)
      ELSE Finish(p, [r EXCEPT !.tabs = l.tabs], "ok", 0, currentPage, browser)

\* lines 46-49: browser.pages() resolves
LT_PagesDone(p) ==
    /\ pc[p] = "lt_pages"
    /\ connected[loc[p].target]
    /\ LET ps == pages[loc[p].target]
       IN  LT_Loop(p, [loc[p] EXCEPT !.pages = ps, !.i = 0, !.tabs = <<>>],
                   [res[p] EXCEPT !.snap = ps])
    /\ UNCHANGED <<globals, engine>>

\* lines 52-54: page.url() and page.title() resolve; the entry is pushed
LT_ReadDone(p) ==
    /\ pc[p] = "lt_read"
    /\ IsOpen(loc[p].page)
    /\ LT_Loop(p, [loc[p] EXCEPT !.i = @ + 1,
                                !.tabs = Append(@, TabEntry(loc[p].page, loc[p].i, loc[p].tabs))],
               res[p])
    /\ UNCHANGED <<globals, engine>>

\* lines 55-58: a read of pages[i] rejects (the page has closed, or its title
\* cannot be evaluated); the page is skipped and its number logged
LT_ReadFail(p) ==
    /\ pc[p] = "lt_read"
    /\ LT_Loop(p, [loc[p] EXCEPT !.i = @ + 1],
               [res[p] EXCEPT !.warned = @ \cup {loc[p].i}])
    /\ UNCHANGED <<globals, engine>>

(***************************************************************************)
(* selectTab (connection.ts 64-78)                                         *)
(***************************************************************************)
\* line 71 with > in place of >=
OutOfRange_OffByOne(tabIndex, ps) == tabIndex < 0 \/ tabIndex > Len(ps)

\* lines 71 and 113
OutOfRange(tabIndex, ps) == tabIndex < 0 \/ tabIndex >= Len(ps)

\* lines 65-69
ST_Start(p, tabIndex) ==
    /\ pc[p] = "idle"
    /\ IF browser = 0
         THEN Finish(p, [Pending("selectTab") EXCEPT !.idx = tabIndex],
                     "NotInitialized", 0, currentPage, browser)
         ELSE Step(p, "st_pages", [NoLoc EXCEPT !.tabIndex = tabIndex, !.target = browser],
                   [Pending("selectTab") EXCEPT !.idx = tabIndex])
    /\ UNCHANGED <<globals, engine>>

\* lines 69-77: browser.pages() resolves
ST_PagesDone(p) ==
    /\ pc[p] = "st_pages"
    /\ connected[loc[p].target]
    /\ LET ps == pages[loc[p].target]
           i == loc[p].tabIndex
           r == [res[p] EXCEPT !.snap = ps]
       IN  IF OutOfRange(i, ps)
             THEN /\ UNCHANGED currentPage
                  /\ Finish(p, r, "OutOfRange", 0, currentPage, browser)
             ELSE /\ currentPage' = At(ps, i)
                  /\ Finish(p, r, "ok", At(ps, i), At(ps, i), browser)
    /\ UNCHANGED <<browser, disconnectHandlerAttached, engine>>

(***************************************************************************)
(* createNewTab (connection.ts 80-100)                                     *)
(***************************************************************************)
\* lines 81-85
CT_Start(p, url) ==
    /\ pc[p] = "idle"
    /\ IF browser = 0
         THEN Finish(p, Pending("createNewTab"), "NotInitialized", 0, currentPage, browser)
         ELSE Step(p, "ct_newpage", [NoLoc EXCEPT !.url = url, !.target = browser],
                   Pending("createNewTab"))
    /\ UNCHANGED <<globals, engine>>

\* lines 85-91: newPage() resolves; the new page is configured
CT_NewPageDone(p) ==
    /\ pc[p] = "ct_newpage"
    /\ connected[loc[p].target]
    /\ created < MaxPages
    /\ LET pg == created + 1
           b == loc[p].target
       IN  /\ created' = pg
           /\ pages' = [pages EXCEPT ![b] = Append(@, pg)]
           /\ owner' = [owner EXCEPT ![pg] = b]
           /\ Step(p, "ct_cfg", [loc[p] EXCEPT !.page = pg], res[p])
    /\ UNCHANGED <<globals, launched, connected, handlers>>

\* lines 89-98: the configuration calls resolve; goto is called when a url was
\* given, else the new page becomes currentPage and is returned
CT_CfgDone(p) ==
    /\ pc[p] = "ct_cfg"
    /\ IsOpen(loc[p].page)
    /\ IF loc[p].url
         THEN /\ UNCHANGED currentPage
              /\ Step(p, "ct_goto", loc[p], res[p])
         ELSE /\ currentPage' = loc[p].page
              /\ Finish(p, res[p], "ok", loc[p].page, loc[p].page, browser)
    /\ UNCHANGED <<browser, disconnectHandlerAttached, engine>>

\* lines 94-99: goto resolves
CT_GotoDone(p) ==
    /\ pc[p] = "ct_goto"
    /\ IsOpen(loc[p].page)
    /\ currentPage' = loc[p].page
    /\ Finish(p, res[p], "ok", loc[p].page, loc[p].page, browser)
    /\ UNCHANGED <<browser, disconnectHandlerAttached, engine>>

\* line 94: goto rejects (navigation error or timeout); line 97 is not reached
CT_GotoFail(p) ==
    /\ pc[p] = "ct_goto"
    /\ IsOpen(loc[p].page)
    /\ Finish(p, [res[p] EXCEPT !.snap = <<loc[p].page>>], "NavigationFailure", 0,
              currentPage, browser)
    /\ UNCHANGED <<globals, engine>>

(***************************************************************************)
(* closeTab (connection.ts 102-128)                                        *)
(***************************************************************************)
\* line 109 with < in place of <=
CannotCloseLast_OffByOne(ps) == Len(ps) < 1

\* line 109
CannotCloseLast(ps) == Len(ps) <= 1

\* line 122
newIndex(tabIndex, ps) == IF tabIndex < Len(ps) - 1 THEN tabIndex ELSE tabIndex - 1

\* line 123: the index currentPage is re-pointed to
RepointIndex(tabIndex, ps) ==
    IF newIndex(tabIndex, ps) = tabIndex
      THEN newIndex(tabIndex, ps) - 1
      ELSE newIndex(tabIndex, ps)

\* lines 122-123 without the test of line 120
Repoint_WithoutTest(pageToClose, tabIndex, ps) == At(ps, RepointIndex(tabIndex, ps))

\* lines 120-124: currentPage after the re-pointing
Repoint(pageToClose, tabIndex, ps) ==
    IF pageToClose = currentPage THEN At(ps, RepointIndex(tabIndex, ps)) ELSE currentPage

\* lines 103-107
CL_Start(p, tabIndex) ==
    /\ pc[p] = "idle"
    /\ IF browser = 0
         THEN Finish(p, [Pending("closeTab") EXCEPT !.idx = tabIndex],
                     "NotInitialized", 0, currentPage, browser)
         ELSE Step(p, "cl_pages", [NoLoc EXCEPT !.tabIndex = tabIndex, !.target = browser],
                   [Pending("closeTab") EXCEPT !.idx = tabIndex])
    /\ UNCHANGED <<globals, engine>>

\* lines 107-126: browser.pages() resolves; the checks, the re-pointing of
\* currentPage, and the call of pageToClose.close()
CL_PagesDone(p) ==
    /\ pc[p] = "cl_pages"
    /\ connected[loc[p].target]
    /\ LET ps == pages[loc[p].target]
           i == loc[p].tabIndex
           pageToClose == At(ps, i)
           r == [res[p] EXCEPT !.snap = ps]
       IN  IF CannotCloseLast(ps)
             THEN /\ UNCHANGED currentPage
                  /\ Finish(p, r, "CannotCloseLast", 0, currentPage, browser)
             ELSE IF OutOfRange(i, ps)
                    THEN /\ UNCHANGED currentPage
                         /\ Finish(p, r, "OutOfRange", 0, currentPage, browser)
                    ELSE /\ currentPage' = Repoint(pageToClose, i, ps)
                         /\ Step(p, "cl_close",
                                 [loc[p] EXCEPT !.pages = ps, !.page = pageToClose],
                                 [r EXCEPT !.wasCur = (pageToClose = currentPage)])
    /\ UNCHANGED <<browser, disconnectHandlerAttached, engine>>

\* lines 126-128: pageToClose.close() resolves
CL_CloseDone(p) ==
    /\ pc[p] = "cl_close"
    /\ IsOpen(loc[p].page)
    /\ pages' = [pages EXCEPT ![owner[loc[p].page]] = Remove(@, loc[p].page)]
    /\ Finish(p, res[p], "ok", 0, currentPage, browser)
    /\ UNCHANGED <<globals, launched, connected, created, owner, handlers>>

(***************************************************************************)
(* closeBrowser (connection.ts 130-138)                                    *)
(***************************************************************************)
\* lines 131-133
CB_Start(p) ==
    /\ pc[p] = "idle"
    /\ IF browser = 0
         THEN Finish(p, Pending("closeBrowser"), "ok", 0, currentPage, browser)
         ELSE Step(p, "cb_close", [NoLoc EXCEPT !.target = browser], Pending("closeBrowser"))
    /\ UNCHANGED <<globals, engine>>

\* lines 133-136 without line 135 (currentPage = undefined)
CB_CloseDone_KeepsCurrentPage(p) ==
    /\ pc[p] = "cb_close"
    /\ LET b == loc[p].target
           heard == connected[b] /\ ListenerRuns(b)
       IN  /\ connected' = [connected EXCEPT ![b] = FALSE]
           /\ pages' = [pages EXCEPT ![b] = <<>>]
           /\ disconnectHandlerAttached' = IF heard THEN FALSE ELSE disconnectHandlerAttached
           /\ browser' = 0
           /\ currentPage' = IF heard THEN 0 ELSE currentPage
           /\ Finish(p, [res[p] EXCEPT !.snap = <<b>>], "ok", 0,
                     IF heard THEN 0 ELSE currentPage, 0)
    /\ UNCHANGED <<launched, created, owner, handlers>>

\* lines 133-136: browser.close() resolves.  The engine emits 'disconnected'
\* while closing a connected browser, so its listener has run before the
\* assignments of lines 134-135.
CB_CloseDone(p) ==
    /\ pc[p] = "cb_close"
    /\ LET b == loc[p].target
       IN  /\ connected' = [connected EXCEPT ![b] = FALSE]
           /\ pages' = [pages EXCEPT ![b] = <<>>]
           /\ disconnectHandlerAttached' =
                IF connected[b] /\ ListenerRuns(b) THEN FALSE ELSE disconnectHandlerAttached
           /\ browser' = 0
           /\ currentPage' = 0
           /\ Finish(p, [res[p] EXCEPT !.snap = <<b>>], "ok", 0, 0, 0)
    /\ UNCHANGED <<launched, created, owner, handlers>>

(***************************************************************************)
(* An engine call rejects because its browser has disconnected or its page *)
(* has closed: the awaiting function throws.                               *)
(***************************************************************************)
AwaitsBrowser(p) ==
    pc[p] \in {"eb_pages", "eb_newpage", "lt_pages", "st_pages", "ct_newpage", "cl_pages"}
AwaitsPage(p) == pc[p] \in {"eb_setjs", "eb_setua", "ct_cfg", "ct_goto", "cl_close"}

Reject(p) ==
    /\ \/ AwaitsBrowser(p) /\ ~connected[loc[p].target]
       \/ AwaitsPage(p) /\ isClosed(loc[p].page)
    /\ Finish(p, res[p], "EngineError", 0, currentPage, browser)
    /\ UNCHANGED <<globals, engine>>

(***************************************************************************)
(* Serialized callers: one call at a time (caller 1), each running to its  *)
(* return or throw before the next starts; a browser may disconnect at any *)
(* moment, also while the call is suspended.                               *)
(***************************************************************************)
Call(p) ==
    \/ EB_Start(p)
    \/ LT_Start(p)
    \/ \E i \in TabIndices : ST_Start(p, i)
    \/ \E u \in BOOLEAN : CT_Start(p, u)
    \/ \E i \in TabIndices : CL_Start(p, i)
    \/ CB_Start(p)

Resume(p) ==
    \/ EB_LaunchDone(p)
    \/ EB_LaunchFail(p)
    \/ EB_PagesDone(p)
    \/ EB_NewPageDone(p)
    \/ EB_SetJsDone(p)
    \/ EB_SetUaDone(p)
    \/ LT_PagesDone(p)
    \/ LT_ReadDone(p)
    \/ LT_ReadFail(p)
    \/ ST_PagesDone(p)
    \/ CT_NewPageDone(p)
    \/ CT_CfgDone(p)
    \/ CT_GotoDone(p)
    \/ CT_GotoFail(p)
    \/ CL_PagesDone(p)
    \/ CL_CloseDone(p)
    \/ CB_CloseDone(p)
    \/ Reject(p)

Next ==
    \/ Call(1)
    \/ Resume(1)
    \/ \E b \in Browsers : Disconnect(b)

Spec == Init /\ [][Next]_vars

(***************************************************************************)
(* Serialized callers and serialized notifications: a browser disconnects  *)
(* only between two calls, never while one is suspended.                   *)
(***************************************************************************)
DisconnectBetweenCalls(b) ==
    /\ pc[1] = "idle"
    /\ Disconnect(b)

NextSerial ==
    \/ Call(1)
    \/ Resume(1)
    \/ \E b \in Browsers : DisconnectBetweenCalls(b)

SpecSerial == Init /\ [][NextSerial]_vars

(***************************************************************************)
(* Overlapping callers: ensureBrowser is called by two callers, and the    *)
(* second call may start while the first is suspended at an await.  No     *)
(* browser disconnects and no page is closed, so a browser that has been   *)
(* launched and given its page stays usable.                               *)
(***************************************************************************)
NextOverlap ==
    \/ \E p \in Procs : EB_Start(p)
    \/ \E p \in Procs : EB_LaunchDone(p)
    \/ \E p \in Procs : EB_LaunchFail(p)
    \/ \E p \in Procs : EB_PagesDone(p)
    \/ \E p \in Procs : EB_NewPageDone(p)
    \/ \E p \in Procs : EB_SetJsDone(p)
    \/ \E p \in Procs : EB_SetUaDone(p)

SpecOverlap == Init /\ [][NextOverlap]_vars

(***************************************************************************)
(* Overlapping closeTab calls: caller 1 brings up the browser and opens    *)
(* tabs; closeTab is called by both callers, and one call may start while  *)
(* the other is suspended at an await.  No browser disconnects.            *)
(***************************************************************************)
NextClosers ==
    \/ EB_Start(1)
    \/ EB_LaunchDone(1)
    \/ EB_LaunchFail(1)
    \/ EB_PagesDone(1)
    \/ EB_NewPageDone(1)
    \/ EB_SetJsDone(1)
    \/ EB_SetUaDone(1)
    \/ \E u \in BOOLEAN : CT_Start(1, u)
    \/ CT_NewPageDone(1)
    \/ CT_CfgDone(1)
    \/ CT_GotoDone(1)
    \/ CT_GotoFail(1)
    \/ \E p \in Procs : \E i \in TabIndices : CL_Start(p, i)
    \/ \E p \in Procs : CL_PagesDone(p)
    \/ \E p \in Procs : CL_CloseDone(p)
    \/ \E p \in Procs : Reject(p)

SpecClosers == Init /\ [][NextClosers]_vars

(***************************************************************************)
(* The remote-attach path and the dispatcher that has the connect tool.    *)
(* connectToExistingBrowser is imported by config/browser.ts but its code  *)
(* is not in the sources; AT_* follow section 4.3 of the specification:    *)
(* connect to a browser that is already running, pick one of its open      *)
(* pages, register a console observer on it, make it the current page.     *)
(***************************************************************************)
AT_Start(p) ==
    /\ pc[p] = "idle"
    /\ pc' = [pc EXCEPT ![p] = "at_connect"]
    /\ loc' = [loc EXCEPT ![p] = NoLoc]
    /\ res' = [res EXCEPT ![p] = Pending("attach")]
    /\ UNCHANGED <<globals, engine, outside>>

\* the running browser has n open pages; the k-th is the one that matches
AT_Done(p) ==
    /\ pc[p] = "at_connect"
    /\ launched < MaxBrowsers
    /\ \E n \in 1..2 : \E k \in 1..n :
         LET b == launched + 1
             ps == [j \in 1..n |-> created + j]
         IN  /\ created + n <= MaxPages
             /\ launched' = b
             /\ connected' = [connected EXCEPT ![b] = TRUE]
             /\ created' = created + n
             /\ pages' = [pages EXCEPT ![b] = ps]
             /\ owner' = [pg \in PageIds |-> IF pg \in {ps[j] : j \in 1..n} THEN b ELSE owner[pg]]
             /\ browser' = b
             /\ currentPage' = ps[k]
             /\ bound' = ps[k]
             /\ pc' = [pc EXCEPT ![p] = "idle"]
             /\ loc' = [loc EXCEPT ![p] = NoLoc]
             /\ res' = [res EXCEPT ![p] = [@ EXCEPT !.st = "ok", !.val = ps[k],
                                                    !.cur = ps[k], !.brw = b]]
             /\ UNCHANGED <<disconnectHandlerAttached, handlers, dom, ext, call, listeners>>

\* ConnectionError (nothing listens on the endpoint) or TargetNotFound
AT_Fail(p) ==
    /\ pc[p] = "at_connect"
    /\ \E err \in {"ConnectionError", "TargetNotFound"} :
         Finish(p, res[p], err, 0, currentPage, browser)
    /\ UNCHANGED <<globals, engine>>

\* connection.ts 140-142
getCurrentPage == currentPage

\* config/browser.ts 82: the dispatcher without the connect tool asks
\* ensureBrowser for the page of every tool call
TC_Start_AlwaysEnsures(p) ==
    /\ pc[p] = "idle"
    /\ IF NeedsLaunch
         THEN Step(p, "eb_launch", NoLoc,
                   [Pending("toolCall") EXCEPT !.fresh = NoBrowserExists])
         ELSE Finish(p, Pending("toolCall"), "ok", currentPage, currentPage, browser)
    /\ UNCHANGED <<globals, engine>>

\* config/browser.ts 630: const page = getCurrentPage() || await ensureBrowser()
TC_Start(p) ==
    /\ pc[p] = "idle"
    /\ IF getCurrentPage # 0
         THEN Finish(p, Pending("toolCall"), "ok", getCurrentPage, currentPage, browser)
         ELSE IF NeedsLaunch
                THEN Step(p, "eb_launch", NoLoc,
                          [Pending("toolCall") EXCEPT !.fresh = NoBrowserExists])
                ELSE Finish(p, Pending("toolCall"), "ok", currentPage, currentPage, browser)
    /\ UNCHANGED <<globals, engine>>

NextAttach ==
    \/ Call(1)
    \/ Resume(1)
    \/ AT_Start(1)
    \/ AT_Done(1)
    \/ AT_Fail(1)
    \/ TC_Start(1)
    \/ \E b \in Browsers : Disconnect(b)

SpecAttach == Init /\ [][NextAttach]_vars

\* the dispatcher that has the connect tool, when no remote attach is made:
\* tool calls acquire their page, the functions of connection.ts are called,
\* browsers disconnect
NextAcquire ==
    \/ Call(1)
    \/ Resume(1)
    \/ TC_Start(1)
    \/ \E b \in Browsers : Disconnect(b)

SpecAcquire == Init /\ [][NextAcquire]_vars

(***************************************************************************)
(* puppeteer_interactable_elements (config/browser.ts 376-510): the script *)
(* that page.evaluate runs in the document.  A JavaScript string is a      *)
(* string; an absent attribute reads as "", which the script cannot tell   *)
(* from null because it only tests attribute values for truthiness.        *)
(***************************************************************************)
MaxDomLen == 2
MaxElements == 2

Whitespace == {" ", "\n"}

RECURSIVE trimStart(_)
trimStart(s) == IF s # "" /\ Head(s) \in Whitespace THEN trimStart(Tail(s)) ELSE s

RECURSIVE trimEnd(_)
trimEnd(s) ==
    IF s # "" /\ SubSeq(s, Len(s), Len(s)) \in Whitespace
      THEN trimEnd(SubSeq(s, 1, Len(s) - 1))
      ELSE s

\* String.prototype.trim
trim(s) == trimEnd(trimStart(s))

\* slice(start, end) of a string or an array, 0 <= start
slice(arr, start, end) == SubSeq(arr, start + 1, IF end < Len(arr) THEN end ELSE Len(arr))

\* String.prototype.startsWith
startsWith(s, prefix) == Len(s) >= Len(prefix) /\ SubSeq(s, 1, Len(prefix)) = prefix

\* trimmed.split(/\s+/)[0]: the characters before the first whitespace
RECURSIVE firstToken(_)
firstToken(s) ==
    IF s = "" \/ Head(s) \in Whitespace THEN "" ELSE Head(s) \o firstToken(Tail(s))

\* text.replace(/"/g, '\\"'): a backslash in front of every double quote
RECURSIVE escapeQuotes(_)
escapeQuotes(s) ==
    IF s = "" THEN ""
    ELSE (IF Head(s) = "\"" THEN "\\\"" ELSE Head(s)) \o escapeQuotes(Tail(s))

lowerChar(c) ==
    CASE c = "A" -> "a" [] c = "B" -> "b" [] c = "D" -> "d" [] c = "G" -> "g"
      [] c = "I" -> "i" [] c = "M" -> "m"
      [] c = "N" -> "n" [] c = "O" -> "o" [] c = "P" -> "p" [] c = "S" -> "s"
      [] c = "T" -> "t" [] c = "U" -> "u" [] c = "V" -> "v" [] OTHER -> c

\* String.prototype.toLowerCase, on the letters of the tag names used below
RECURSIVE toLowerCase(_)
toLowerCase(s) == IF s = "" THEN "" ELSE lowerChar(Head(s)) \o toLowerCase(Tail(s))

\* a ?? b, an absent argument being <<>> and a given one <<v>>
Default(arg, d) == IF arg = <<>> THEN d ELSE arg[1]

(***************************************************************************)
(* Documents.  An element has its tag name, its attributes in source       *)
(* order, the text of its own text nodes and the computed style values the *)
(* script reads.  A document lists its elements in document order (what    *)
(* querySelectorAll('*') returns; html, head and body, which carry nothing *)
(* the script looks at, are left out) with the parent of each, 0 for body. *)
(***************************************************************************)
Attr(n, v) == [name |-> n, value |-> v]
Visible == [display |-> "block", visibility |-> "visible", opacity |-> "1", cursor |-> "auto"]
Element(tag, attrs, txt, st) == [tagName |-> tag, attributes |-> attrs, text |-> txt, style |-> st]

Text30 == "Continue to the checkout page!"
Text52 == "Read the full terms and conditions of this \"service\""

Catalogue ==
    << Element("BUTTON", <<Attr("id", "go"), Attr("class", "primary")>>, "Go", Visible),
       Element("DIV", <<>>, "plain", Visible),
       Element("A", <<Attr("href", "/next")>>, "  " \o Text30 \o "\n", Visible),
       Element("A", <<Attr("href", "/terms"), Attr("title", "Terms")>>, Text52, Visible),
       Element("BUTTON", <<Attr("data-empty", ""), Attr("data-test", "save"),
                           Attr("type", "submit")>>, "Say \"hi\"", Visible),
       Element("INPUT", <<Attr("name", "q"), Attr("type", "text"),
                          Attr("class", "  field wide "), Attr("placeholder", "Search"),
                          Attr("value", "cats")>>,
               "", [Visible EXCEPT !.display = "none"]),
       Element("SPAN", <<Attr("role", "button"), Attr("title", "Dismiss"),
                         Attr("aria-label", "Close")>>, " \n ",
               [Visible EXCEPT !.visibility = "hidden"]),
       Element("DIV", <<Attr("role", "tab")>>, "",
               [Visible EXCEPT !.cursor = "pointer", !.opacity = "0"]),
       Element("IMG", <<Attr("tabindex", "0"), Attr("title", ""), Attr("src", "/logo.png"),
                        Attr("alt", "Logo"), Attr("value", "1")>>, "", Visible) >>

getAttribute(el, n) ==
    LET hits == SelectSeq(el.attributes, LAMBDA a : a.name = n)
    IN  IF hits = <<>> THEN "" ELSE hits[1].value

hasAttribute(el, n) == \E k \in DOMAIN el.attributes : el.attributes[k].name = n

\* Node.textContent: the element's own text and that of its descendants
RECURSIVE textContent(_, _), childrenText(_, _, _)
textContent(doc, i) == doc.els[i].text \o childrenText(doc, i, i + 1)
childrenText(doc, i, j) ==
    IF j > Len(doc.els) THEN ""
    ELSE (IF doc.parent[j] = i THEN textContent(doc, j) ELSE "") \o childrenText(doc, i, j + 1)

\* the filter without the opacity test
isHidden_IgnoresOpacity(el) ==
    el.style.display = "none" \/ el.style.visibility = "hidden"

\* lines 389-394
isHidden(el) ==
    el.style.display = "none" \/ el.style.visibility = "hidden" \/ el.style.opacity = "0"

\* lines 397-410
isInteractable(el) ==
    \/ el.tagName \in {"A", "BUTTON", "INPUT", "SELECT", "TEXTAREA", "DETAILS", "SUMMARY", "LABEL"}
    \/ hasAttribute(el, "contenteditable")
    \/ \E h \in {"onclick", "onmousedown", "ondblclick", "onchange", "oninput"} : hasAttribute(el, h)
    \/ /\ hasAttribute(el, "role")
       /\ getAttribute(el, "role") \in {"button", "link", "menuitem", "tab", "checkbox",
                                        "radio", "slider", "spinbutton", "textbox"}
    \/ hasAttribute(el, "tabindex")
    \/ el.style.cursor = "pointer"

\* line 453
text(doc, i) == trim(textContent(doc, i))

\* lines 419-421
idSelector(el) ==
    IF getAttribute(el, "id") # "" THEN <<"#" \o getAttribute(el, "id")>> ELSE <<>>

\* lines 424-427
nameSelector(el) ==
    LET nameAttr == getAttribute(el, "name")
    IN  IF nameAttr # "" THEN <<"[name=\"" \o nameAttr \o "\"]">> ELSE <<>>

\* lines 430-436: the first data-* attribute that has a value
dataSelector(el) ==
    LET hits == SelectSeq(el.attributes, LAMBDA a : startsWith(a.name, "data-") /\ a.value # "")
    IN  IF hits = <<>> THEN <<>>
        ELSE <<"[" \o hits[1].name \o "=\"" \o hits[1].value \o "\"]">>

\* lines 439-444
classSelector(el) ==
    LET firstClass == firstToken(trim(getAttribute(el, "class")))
    IN  IF firstClass # "" THEN <<"." \o firstClass>> ELSE <<>>

\* lines 447-450
typeSelector(el) ==
    LET typeAttr == getAttribute(el, "type")
    IN  IF typeAttr # ""
          THEN <<toLowerCase(el.tagName) \o "[type=\"" \o typeAttr \o "\"]">>
          ELSE <<>>

\* a candidate for text of any length, cut to its first 30 characters
textSelector_Truncates(doc, i) ==
    LET t == slice(text(doc, i), 0, 30)
    IN  IF Len(t) > 0
          THEN IF doc.els[i].tagName = "BUTTON"
                 THEN <<"button[text*=\"" \o escapeQuotes(t) \o "\"]">>
                 ELSE IF doc.els[i].tagName = "A"
                        THEN <<"a[text*=\"" \o escapeQuotes(t) \o "\"]">>
                        ELSE <<>>
          ELSE <<>>

\* lines 454-460
textSelector(doc, i) ==
    LET t == text(doc, i)
    IN  IF Len(t) > 0 /\ Len(t) <= 30
          THEN IF doc.els[i].tagName = "BUTTON"
                 THEN <<"button[text*=\"" \o escapeQuotes(t) \o "\"]">>
                 ELSE IF doc.els[i].tagName = "A"
                        THEN <<"a[text*=\"" \o escapeQuotes(t) \o "\"]">>
                        ELSE <<>>
          ELSE <<>>

\* a position counter that is not reset between two runs of the script
index_CountsEarlierRuns(doc, i) ==
    LET sameTagSibling == {j \in 1..Len(doc.els) :
                             /\ doc.parent[j] = doc.parent[i]
                             /\ doc.els[j].tagName = doc.els[i].tagName}
    IN  Cardinality({j \in sameTagSibling : j <= i}) + Len(ext.out)

\* lines 463-465: the position among the children of the parent with the same tag
index(doc, i) ==
    LET sameTagSibling == {j \in 1..Len(doc.els) :
                             /\ doc.parent[j] = doc.parent[i]
                             /\ doc.els[j].tagName = doc.els[i].tagName}
    IN  Cardinality({j \in sameTagSibling : j <= i})

\* line 466
nthSelector(doc, i) ==
    <<toLowerCase(doc.els[i].tagName) \o ":nth-of-type(" \o ToString(index(doc, i)) \o ")">>

\* the class candidate ranked first
selectors_ClassFirst(doc, i) ==
    LET el == doc.els[i]
    IN  classSelector(el) \o idSelector(el) \o nameSelector(el) \o dataSelector(el)
          \o typeSelector(el) \o textSelector(doc, i) \o nthSelector(doc, i)

\* lines 416-466
selectors(doc, i) ==
    LET el == doc.els[i]
    IN  idSelector(el) \o nameSelector(el) \o dataSelector(el) \o classSelector(el)
          \o typeSelector(el) \o textSelector(doc, i) \o nthSelector(doc, i)

\* a || b on strings
Or(a, b) == IF a # "" THEN a ELSE b

\* the text used whole
description_TextNotTruncated(doc, i) ==
    LET el == doc.els[i]
        typeAttr == getAttribute(el, "type")
        role == getAttribute(el, "role")
        synthesized == el.tagName \o (IF typeAttr # "" THEN "[" \o typeAttr \o "]" ELSE "")
                                  \o (IF role # "" THEN "[" \o role \o "]" ELSE "")
    IN  Or(text(doc, i),
        Or(getAttribute(el, "aria-label"),
        Or(getAttribute(el, "title"),
        Or(getAttribute(el, "placeholder"),
        Or(getAttribute(el, "alt"),
        Or(getAttribute(el, "href"),
        Or(getAttribute(el, "value"), synthesized)))))))

\* lines 479-487
description(doc, i) ==
    LET el == doc.els[i]
        typeAttr == getAttribute(el, "type")
        role == getAttribute(el, "role")
        synthesized == el.tagName \o (IF typeAttr # "" THEN "[" \o typeAttr \o "]" ELSE "")
                                  \o (IF role # "" THEN "[" \o role \o "]" ELSE "")
    IN  Or(slice(text(doc, i), 0, 50),
        Or(getAttribute(el, "aria-label"),
        Or(getAttribute(el, "title"),
        Or(getAttribute(el, "placeholder"),
        Or(getAttribute(el, "alt"),
        Or(getAttribute(el, "href"),
        Or(getAttribute(el, "value"), synthesized)))))))

\* lines 490-497: the attributes of the whitelist that have a value, in that order
attributes(el) ==
    LET keys == <<"href", "value", "src", "action", "target", "type", "name">>
        given == SelectSeq(keys, LAMBDA k : getAttribute(el, k) # "")
    IN  [k \in 1..Len(given) |-> Attr(given[k], getAttribute(el, given[k]))]

\* the two entries from the third on
alternatives_FromThird(sels) == slice(sels, 2, 4)

\* line 505
alternatives(sels) == slice(sels, 1, 3)

\* lines 469 and 499-506
Record(doc, i) ==
    LET el == doc.els[i]
        sels == selectors(doc, i)
    IN  [selector |-> IF sels # <<>> THEN sels[1] ELSE toLowerCase(el.tagName),
         description |-> Or(description(doc, i), "No description"),
         tag |-> el.tagName,
         type |-> getAttribute(el, "type"),
         attributes |-> attributes(el),
         alternatives |-> alternatives(sels)]

\* a guard that counts the elements scanned
Continues_CountsScanned(i, elements, n, maxElements) == i < n /\ i < maxElements

\* line 385: the loop guard
Continues(i, elements, n, maxElements) == i < n /\ Len(elements) < maxElements

\* lines 385-507: the loop from element i (0-based) on; at lists the positions
\* of the elements whose records are in elements (ranked, in the result of
\* Extract, their whole selectors arrays)
RECURSIVE Loop(_, _, _, _, _, _)
Loop(doc, includeHidden, maxElements, i, elements, at) ==
    IF ~Continues(i, elements, Len(doc.els), maxElements)
      THEN [out |-> elements, at |-> at]
      ELSE LET el == doc.els[i + 1]
           IN  IF (~includeHidden /\ isHidden(el)) \/ ~isInteractable(el)
                 THEN Loop(doc, includeHidden, maxElements, i + 1, elements, at)
                 ELSE Loop(doc, includeHidden, maxElements, i + 1,
                           Append(elements, Record(doc, i + 1)), Append(at, i + 1))

\* the page's document gets one more element, the c-th of the catalogue, last
\* in document order: a child of body, or (nested) of the element before it
AppendElement(c, nested) ==
    /\ Len(dom.els) < MaxDomLen
    /\ dom' = [els |-> Append(dom.els, Catalogue[c]),
               parent |-> Append(dom.parent, IF nested THEN Len(dom.els) ELSE 0)]
    /\ ext' = NoExt
    /\ UNCHANGED <<globals, engine, pc, loc, res, bound, call, listeners>>

\* lines 378-510: one call of the tool with the arguments given, <<>> for an
\* argument left out; the script runs to its end inside page.evaluate
Extract(hiddenArg, maxArg) ==
    LET includeHidden == Default(hiddenArg, FALSE)
        maxElements == Default(maxArg, 200)
    IN  /\ \E r \in {Loop(dom, includeHidden, maxElements, 0, <<>>, <<>>)} :
           ext' = [includeHidden |-> includeHidden, maxElements |-> maxElements,
                   ran |-> TRUE, out |-> r.out, at |-> r.at,
                   ranked |-> [j \in 1..Len(r.at) |-> selectors(dom, r.at[j])],
                   again |-> FALSE]
        /\ UNCHANGED <<globals, engine, pc, loc, res, bound, dom, call, listeners>>

\* the tool is called once more with the arguments of the call before, and
\* the document has not changed since
ExtractAgain ==
    /\ ext.ran
    /\ \E r \in {Loop(dom, ext.includeHidden, ext.maxElements, 0, <<>>, <<>>)} :
         ext' = [ext EXCEPT !.out = r.out, !.at = r.at,
                            !.ranked = [j \in 1..Len(r.at) |-> selectors(dom, r.at[j])],
                            !.again = TRUE]
    /\ UNCHANGED <<globals, engine, pc, loc, res, bound, dom, call, listeners>>

NextExtract ==
    \/ \E c \in 1..Len(Catalogue) : \E nested \in BOOLEAN : AppendElement(c, nested)
    \/ \E h \in {<<>>, <<FALSE>>, <<TRUE>>} :
         \E m \in {<<>>} \cup {<<k>> : k \in 0..MaxElements} : Extract(h, m)

SpecExtract == Init /\ [][NextExtract]_vars

\* calls of the tool and repetitions of the last call
NextRepeat ==
    \/ \E c \in 1..Len(Catalogue) : \E nested \in BOOLEAN : AppendElement(c, nested)
    \/ \E h \in {<<>>, <<TRUE>>} : \E m \in {<<>>, <<MaxElements>>} : Extract(h, m)
    \/ ExtractAgain

SpecRepeat == Init /\ [][NextRepeat]_vars

(***************************************************************************)
(* handleToolCall (config/browser.ts 73-562): the dispatcher that has the  *)
(* tab tools.  It awaits ensureBrowser() for the page (line 82) and then   *)
(* runs the case of the tool.  call.step is the position, in Flow, of the  *)
(* function or engine call the dispatcher is about to make or is awaiting; *)
(* the code between two awaits is one step.                                *)
(***************************************************************************)
MaxListeners == 1

ToolNames ==
    {"puppeteer_list_tabs", "puppeteer_select_tab", "puppeteer_close_tab",
     "puppeteer_navigate", "puppeteer_screenshot", "puppeteer_click", "puppeteer_fill",
     "puppeteer_select", "puppeteer_hover", "puppeteer_evaluate",
     "puppeteer_interactable_elements"}

\* the cases whose awaits are inside a try with a catch that returns
\* isError: true; the screenshot case (lines 204-241) has no try
TryCatch == ToolNames \ {"puppeteer_screenshot"}

\* the functions of connection.ts the dispatcher calls
Functions == {"ensureBrowser", "getAllTabs", "selectTab", "createNewTab", "closeTab"}

\* what the case of the tool awaits, in order
Body(c) ==
    CASE c.name = "puppeteer_list_tabs" -> <<"getAllTabs">>
      [] c.name = "puppeteer_select_tab" ->
           IF c.tabIndex = -1 THEN <<"createNewTab", "getAllTabs">>
                              ELSE <<"selectTab", "title">>
      [] c.name = "puppeteer_close_tab" -> <<"closeTab", "getAllTabs">>
      [] c.name = "puppeteer_navigate" -> <<"goto">>
      [] c.name = "puppeteer_screenshot" ->
           IF c.selector THEN <<"$", "screenshot">> ELSE <<"screenshot">>
      [] c.name = "puppeteer_click" -> <<"click">>
      [] c.name = "puppeteer_fill" -> <<"waitForSelector", "type">>
      [] c.name = "puppeteer_select" -> <<"waitForSelector", "select">>
      [] c.name = "puppeteer_hover" -> <<"waitForSelector", "hover">>
      [] c.name = "puppeteer_evaluate" -> <<"evaluate">>
      [] c.name = "puppeteer_interactable_elements" -> <<"evaluate">>

\* line 82, then the case
Flow(c) == <<"ensureBrowser">> \o Body(c)

\* the page the engine calls of the case act on: selectedPage (line 126) in
\* the select-tab case, page (line 82) in the others
Target(c) == IF c.name = "puppeteer_select_tab" THEN c.selected ELSE c.page

\* handleToolCall is running and is not inside a function of connection.ts
Handling == [NoRes EXCEPT !.op = "handleToolCall", !.st = "pending"]

\* lines 88-90: tabs.map((tab, index) => `${index}: ...`), the line of each
\* tab with the number in front of it
Shown(tabs) == [k \in 1..Len(tabs) |-> [number |-> k - 1, tab |-> tabs[k]]]

\* console listeners registered, over all pages
RECURSIVE Registered(_)
Registered(pg) == IF pg = 0 THEN 0 ELSE listeners[pg] + Registered(pg - 1)

\* handleToolCall returns a result (success: isError false, failure: isError
\* true) or lets an exception out (exception)
Complete(p, c, outcome, ls) ==
    /\ call' = [NoCall EXCEPT !.name = c.name, !.stage = "done",
                              !.outcome = outcome, !.raised = c.raised,
                              !.rejected = c.rejected,
                              !.shown = IF c.name = "puppeteer_list_tabs" /\ outcome = "success"
                                          THEN Shown(c.tabs) ELSE <<>>]
    /\ pc' = [pc EXCEPT ![p] = "idle"]
    /\ res' = [res EXCEPT ![p] = [Handling EXCEPT !.st = outcome]]
    /\ listeners' = ls

\* something throws inside the case: the catch of the case returns a failure
\* result, or there is no catch and the exception leaves handleToolCall
Thrown(p, c, ls) ==
    Complete(p, c, IF c.name \in TryCatch THEN "failure" ELSE "exception", ls)

\* the dispatcher goes on to position k of the flow: the case is over, or a
\* function of connection.ts is to be called, or an engine call is made
\* (lines 328-333: the evaluate case registers its console listener first)
Enter(p, c, k, ls) ==
    IF k > Len(Flow(c))
      THEN Complete(p, c, "success", ls)
      ELSE IF Flow(c)[k] \in Functions
             THEN /\ call' = [c EXCEPT !.step = k]
                  /\ pc' = [pc EXCEPT ![p] = "idle"]
                  /\ res' = [res EXCEPT ![p] = Handling]
                  /\ listeners' = ls
             ELSE IF Target(c) = 0
                    THEN Thrown(p, c, ls)
                    ELSE /\ call' = [c EXCEPT !.step = k]
                         /\ pc' = [pc EXCEPT ![p] = "ht_engine"]
                         /\ res' = [res EXCEPT ![p] = Handling]
                         /\ listeners' = IF c.name = "puppeteer_evaluate"
                                           THEN [ls EXCEPT ![Target(c)] = @ + 1]
                                           ELSE ls

\* lines 73-80: a tool call arrives
HT_Start(p, name, tabIndex, url, selector) ==
    /\ pc[p] = "idle"
    /\ call.stage # "run"
    /\ name = "puppeteer_evaluate" => Registered(MaxPages) < MaxListeners
    /\ call' = [NoCall EXCEPT !.name = name, !.tabIndex = tabIndex, !.url = url,
                              !.selector = selector, !.stage = "run", !.step = 1]
    /\ res' = [res EXCEPT ![p] = Handling]
    /\ UNCHANGED <<globals, engine, pc, loc, bound, dom, ext, listeners>>

\* lines 82, 87, 113-114, 125, 148-149: the function at this position is called
HT_Invoke(p) ==
    /\ call.stage = "run"
    /\ pc[p] = "idle"
    /\ res[p] = Handling
    /\ LET fn == Flow(call)[call.step]
       IN  \/ fn = "ensureBrowser" /\ EB_Start(p)
           \/ fn = "getAllTabs" /\ LT_Start(p)
           \/ fn = "selectTab" /\ ST_Start(p, call.tabIndex)
           \/ fn = "createNewTab" /\ CT_Start(p, call.url)
           \/ fn = "closeTab" /\ CL_Start(p, call.tabIndex)

\* the function called has returned or thrown: ensureBrowser is awaited
\* outside every try, the other functions inside the try of their case;
\* rejected: what was thrown is the rejection of an engine call
HT_Returned(p) ==
    /\ call.stage = "run"
    /\ pc[p] = "idle"
    /\ res[p].op = Flow(call)[call.step]
    /\ LET fn == Flow(call)[call.step]
           c == CASE fn = "ensureBrowser" -> [call EXCEPT !.page = res[p].val]
                  [] fn = "selectTab" -> [call EXCEPT !.selected = res[p].val]
                  [] fn = "getAllTabs" -> [call EXCEPT !.tabs = res[p].tabs]
                  [] OTHER -> call
       IN  IF res[p].st = "ok"
             THEN Enter(p, c, call.step + 1, listeners)
             ELSE IF fn = "ensureBrowser"
                    THEN Complete(p, call, "exception", listeners)
                    ELSE Thrown(p, [call EXCEPT !.rejected =
                                      res[p].st \in {"EngineError", "NavigationFailure"}],
                                listeners)
    /\ UNCHANGED <<globals, engine, loc, bound, dom, ext>>

\* the engine call awaited resolves.  how = "value": with what the case goes
\* on with.  how = "nothing": goto with no response or a status >= 400 (lines
\* 175-182, thrown), $ with null or screenshot with nothing (lines 208-216,
\* a failure result is returned), the evaluate wrapper with { error } because
\* the script raised (lines 338-347).  Line 350: the evaluate case removes
\* its console listener.
HT_EngineDone(p, how) ==
    /\ pc[p] = "ht_engine"
    /\ IsOpen(Target(call))
    /\ LET fn == Flow(call)[call.step]
           ls == IF call.name = "puppeteer_evaluate"
                   THEN [listeners EXCEPT ![Target(call)] = @ - 1]
                   ELSE listeners
       IN  \/ /\ how = "value"
              /\ Enter(p, call, call.step + 1, ls)
           \/ /\ how = "nothing"
              /\ \/ fn = "goto" /\ Thrown(p, call, ls)
                 \/ fn \in {"$", "screenshot"} /\ Complete(p, call, "failure", ls)
                 \/ /\ fn = "evaluate"
                    /\ call.name = "puppeteer_evaluate"
                    /\ Enter(p, [call EXCEPT !.raised = TRUE], call.step + 1, ls)
    /\ UNCHANGED <<globals, engine, loc, bound, dom, ext>>

\* the engine call awaited rejects (the page has closed, no element matches
\* the selector, a timeout, a script that does not parse)
HT_EngineFail(p) ==
    /\ pc[p] = "ht_engine"
    /\ Thrown(p, [call EXCEPT !.rejected = TRUE], listeners)
    /\ UNCHANGED <<globals, engine, loc, bound, dom, ext>>

\* a browser disconnects while the dispatcher is suspended at an await, or
\* while no tool call is running
DisconnectAtAwait(b) ==
    /\ call.stage # "run" \/ pc[1] # "idle"
    /\ Disconnect(b)

NextTools ==
    \/ \E name \in {"puppeteer_list_tabs", "puppeteer_navigate", "puppeteer_click",
                    "puppeteer_fill", "puppeteer_select", "puppeteer_hover",
                    "puppeteer_evaluate", "puppeteer_interactable_elements"} :
         HT_Start(1, name, 0, FALSE, FALSE)
    \/ \E i \in TabIndices \ {-1} : HT_Start(1, "puppeteer_select_tab", i, FALSE, FALSE)
    \/ \E u \in BOOLEAN : HT_Start(1, "puppeteer_select_tab", -1, u, FALSE)
    \/ \E i \in TabIndices : HT_Start(1, "puppeteer_close_tab", i, FALSE, FALSE)
    \/ \E s \in BOOLEAN : HT_Start(1, "puppeteer_screenshot", 0, FALSE, s)
    \/ HT_Invoke(1)
    \/ HT_Returned(1)
    \/ \E how \in {"value", "nothing"} : HT_EngineDone(1, how)
    \/ HT_EngineFail(1)
    \/ EB_LaunchDone(1)
    \/ EB_LaunchFail(1)
    \/ EB_PagesDone(1)
    \/ EB_NewPageDone(1)
    \/ EB_SetJsDone(1)
    \/ EB_SetUaDone(1)
    \/ LT_PagesDone(1)
    \/ LT_ReadDone(1)
    \/ LT_ReadFail(1)
    \/ ST_PagesDone(1)
    \/ CT_NewPageDone(1)
    \/ CT_CfgDone(1)
    \/ CT_GotoDone(1)
    \/ CT_GotoFail(1)
    \/ CL_PagesDone(1)
    \/ CL_CloseDone(1)
    \/ Reject(1)
    \/ \E b \in Browsers : DisconnectAtAwait(b)

SpecTools == Init /\ [][NextTools]_vars

(***************************************************************************)
(* Properties                                                              *)
(***************************************************************************)
\* The outcome of the serialized caller's last completed call.
last == res[1]
Returned(op) == pc[1] = "idle" /\ last.op = op /\ last.st = "ok"
Threw(op, err) == pc[1] = "idle" /\ last.op = op /\ last.st = err
\* closeTab closed the page that was currentPage when line 120 compared them
ClosedCurrent == Returned("closeTab") /\ last.wasCur
Live == {b \in Browsers : connected[b]}
\* The serialized caller starts a call of op in this step.
Calls(op) == pc[1] = "idle" /\ res'[1].op = op /\ (pc'[1] # "idle" \/ res'[1] # res[1])

\* C1: after a successful closeTab(i) of the current page with n >= 2 pages
\* enumerated, the current page is the page that was at i+1 if i < n-1 and the
\* page that was at i-1 if i = n-1.
C1_NextElsePrevious ==
    (ClosedCurrent /\ Len(last.snap) >= 2) =>
        last.cur = IF last.idx < Len(last.snap) - 1
                     THEN At(last.snap, last.idx + 1)
                     ELSE At(last.snap, last.idx - 1)

\* C1, the scenario: three tabs, current = tab 1, closeTab(1) leaves the
\* original tab 2 current.
C1_ThreeTabsScenario ==
    (ClosedCurrent /\ Len(last.snap) = 3 /\ last.idx = 1) => last.cur = last.snap[3]

\* C2: after a successful closeTab of the current page, currentPage is present,
\* is one of the pages that were open, and is not the page that was closed.
C2_CurrentStaysLive ==
    ClosedCurrent =>
        /\ last.cur # 0
        /\ last.cur # At(last.snap, last.idx)
        /\ \E k \in 1..Len(last.snap) : last.snap[k] = last.cur

\* C3: no step leaves a connected browser that had an open page with none, and
\* closeTab on a browser with exactly one open page throws CannotCloseLast and
\* closes nothing.
C3_NeverZeroPages ==
    [][ /\ \A b \in Browsers :
              (connected[b] /\ connected'[b] /\ Len(pages[b]) >= 1) => Len(pages'[b]) >= 1
        /\ (pc[1] = "cl_pages" /\ pc'[1] # "cl_pages" /\ connected[loc[1].target]
               /\ Len(pages[loc[1].target]) = 1)
             => (res'[1].st = "CannotCloseLast" /\ pages' = pages) ]_vars

C3_Reached == Threw("closeTab", "CannotCloseLast") /\ Len(last.snap) = 1

\* C4: between calls, an absent browser means an absent currentPage, and a
\* present currentPage belongs to the browser held (calls and disconnect
\* notifications serialized: SpecSerial).
C4_PointerBelongsToHeldBrowser ==
    pc[1] = "idle" =>
        /\ browser = 0 => currentPage = 0
        /\ currentPage # 0 => owner[currentPage] = browser

\* the listener has torn down a browser that had a current page, and a later
\* launch has set both again
C4_Reached ==
    /\ pc[1] = "idle"
    /\ \E b \in Browsers : handlers[b] > 0 /\ ~connected[b] /\ browser # b
    /\ browser # 0
    /\ currentPage # 0
    /\ owner[currentPage] = browser

\* C5: at most one launched browser is live at a time.
C5_AtMostOneLive == Cardinality(Live) <= 1

\* C6: every launched browser has its disconnect listener registered exactly once.
C6_ListenerExactlyOnce == \A b \in 1..launched : handlers[b] = 1

\* C7: an ensureBrowser call that returns returns a page (not undefined), and a
\* call whose launch failed throws and hands back no value.
C7_NeverReturnsAbsent ==
    /\ Returned("ensureBrowser") => last.val # 0
    /\ Threw("ensureBrowser", "LaunchFailure") => last.val = 0

\* The held browser is connected and currentPage is open.
Usable == browser # 0 /\ connected[browser] /\ currentPage # 0 /\ IsOpen(currentPage)

\* C8: ensureBrowser called when no browser exists starts a launch, and when it
\* returns, returns a page of the browser it launched; called while the held
\* browser is connected and currentPage is open it returns currentPage at once,
\* launches nothing and changes neither browser nor currentPage.
C8_SecondCallReturnsSamePage ==
    [][ /\ (Calls("ensureBrowser") /\ NoBrowserExists) => pc'[1] = "eb_launch"
        /\ (pc[1] # "idle" /\ pc'[1] = "idle" /\ res'[1].op = "ensureBrowser"
              /\ res'[1].st = "ok" /\ res'[1].fresh)
             => (res'[1].val # 0 /\ owner'[res'[1].val] = res'[1].launch
                   /\ res'[1].val = currentPage' /\ res'[1].launch = browser')
        /\ (Calls("ensureBrowser") /\ Usable)
             => /\ pc'[1] = "idle"
                /\ res'[1].st = "ok"
                /\ res'[1].val = currentPage
                /\ res'[1].launch = 0
                /\ UNCHANGED <<globals, engine>> ]_vars

\* a second ensureBrowser call has returned the page the launching call set
C8_Reached ==
    /\ Returned("ensureBrowser")
    /\ last.launch = 0
    /\ last.val = currentPage
    /\ Usable

\* C9: when the held browser disconnects, browser and currentPage both become
\* undefined, and an ensureBrowser call made while the held browser is
\* disconnected or absent starts a launch.
C9_DisconnectClearsState ==
    [][ /\ \A b \in Browsers :
              (browser = b /\ connected[b] /\ ~connected'[b])
                 => (browser' = 0 /\ currentPage' = 0)
        /\ (Calls("ensureBrowser") /\ (browser = 0 \/ ~connected[browser]))
             => pc'[1] = "eb_launch" ]_vars

\* C10: closeBrowser with no browser held returns at once and changes nothing;
\* otherwise, when it returns, the browser it held is closed and browser and
\* currentPage are both undefined.
C10_CloseBrowserIdempotent ==
    [][ /\ (Calls("closeBrowser") /\ browser = 0)
             => (pc'[1] = "idle" /\ res'[1].st = "ok" /\ UNCHANGED <<globals, engine>>)
        /\ (Calls("closeBrowser") /\ browser # 0) => pc'[1] = "cb_close"
        /\ (pc[1] = "cb_close" /\ pc'[1] = "idle")
             => /\ res'[1].st = "ok"
                /\ ~connected'[loc[1].target]
                /\ browser' = 0
                /\ currentPage' = 0 ]_vars

\* closeBrowser has closed a browser that held a current page before
C10_Reached ==
    /\ Returned("closeBrowser")
    /\ last.snap # <<>>
    /\ browser = 0
    /\ currentPage = 0
    /\ \E pg \in PageIds : owner[pg] = last.snap[1]

\* C11: with the held browser connected and its fresh enumeration ps,
\* selectTab(i) returns iff 0 <= i < Len(ps); then currentPage is ps[i] and is
\* the value returned; otherwise it throws OutOfRange and currentPage is unchanged.
C11_SelectTabInRange ==
    [][ (pc[1] = "st_pages" /\ pc'[1] = "idle" /\ connected[loc[1].target])
          => LET ps == pages[loc[1].target]
                 i == loc[1].tabIndex
             IN  IF 0 <= i /\ i < Len(ps)
                   THEN /\ res'[1].st = "ok"
                        /\ currentPage' = ps[i + 1]
                        /\ res'[1].val = ps[i + 1]
                   ELSE /\ res'[1].st = "OutOfRange"
                        /\ currentPage' = currentPage ]_vars

\* selectTab(1) has switched from another page to the second of the pages
C11_Reached ==
    /\ Returned("selectTab")
    /\ last.idx = 1
    /\ last.val = last.snap[2]
    /\ currentPage = last.val

\* C12: when the navigation of createNewTab(url) fails, the call throws and
\* currentPage is the newly created tab.
C12_FailedNavigationStillCurrent ==
    Threw("createNewTab", "NavigationFailure") =>
        (last.snap # <<>> /\ last.cur = last.snap[1])

\* C13: with n pages enumerated, closeTab(i) throws CannotCloseLast when n < 2
\* whatever i is, else OutOfRange exactly when i < 0 or i >= n; a call that
\* throws either has closed no page and left currentPage unchanged.
C13_CloseTabFailures ==
    [][ (pc[1] = "cl_pages" /\ pc'[1] # "cl_pages" /\ connected[loc[1].target])
          => LET n == Len(pages[loc[1].target])
                 i == loc[1].tabIndex
                 Fails(err) == /\ pc'[1] = "idle"
                               /\ res'[1].st = err
                               /\ pages' = pages
                               /\ currentPage' = currentPage
             IN  IF n < 2 THEN Fails("CannotCloseLast")
                 ELSE IF i < 0 \/ i >= n THEN Fails("OutOfRange")
                 ELSE pc'[1] = "cl_close" ]_vars

C13_Reached ==
    /\ Threw("closeTab", "OutOfRange")
    /\ Len(last.snap) >= 2
    /\ last.idx >= Len(last.snap)

\* C14: getAllTabs, selectTab, createNewTab and closeTab, called while no
\* connected browser is held, throw NotInitialized at once and change nothing.
TabOps == {"getAllTabs", "selectTab", "createNewTab", "closeTab"}

C14_NotInitializedWithoutLiveBrowser ==
    [][ \A op \in TabOps :
          (Calls(op) /\ (browser = 0 \/ ~connected[browser]))
             => /\ pc'[1] = "idle"
                /\ res'[1].st = "NotInitialized"
                /\ UNCHANGED <<globals, engine>> ]_vars

\* C15: getAllTabs returns, in enumeration order, one entry for each enumerated
\* page whose reads succeeded and none for a page whose read failed; each
\* entry's index is that page's position in the enumeration, and (while the
\* enumerated browser is held and connected) its position in the browser's
\* pages, which is the page selectTab(index) selects.
C15_ListTabsPositions ==
    Returned("getAllTabs") =>
        /\ \A k \in 1..Len(last.tabs) :
              /\ last.tabs[k].index \in 0..(Len(last.snap) - 1)
              /\ last.snap[last.tabs[k].index + 1] = last.tabs[k].page
              /\ k > 1 => last.tabs[k - 1].index < last.tabs[k].index
        /\ {last.tabs[k].index : k \in 1..Len(last.tabs)}
              = (0..(Len(last.snap) - 1)) \ last.warned
        /\ (browser # 0 /\ connected[browser] /\ last.brw = browser)
              => \A k \in 1..Len(last.tabs) :
                    At(pages[browser], last.tabs[k].index) = last.tabs[k].page

\* a listing that skipped a page and lists a later one
C15_Reached ==
    /\ Returned("getAllTabs")
    /\ \E k \in 1..Len(last.tabs) : \E w \in last.warned : w < last.tabs[k].index

\* C16: once remote attach has bound a page, every tool call of the dispatcher
\* that starts while the bound page is still the current page gets that page
\* at once: no launch is started, no browser is added, the globals stay.
C16_BoundPagePreferred ==
    [][(Calls("toolCall") /\ bound # 0 /\ currentPage = bound)
         => /\ pc'[1] = "idle"
            /\ res'[1].st = "ok"
            /\ res'[1].val = bound
            /\ launched' = launched
            /\ UNCHANGED globals]_vars

\* a tool call returned the bound page although its browser has disconnected
C16_Reached ==
    /\ Returned("toolCall")
    /\ bound # 0
    /\ last.val = bound
    /\ ~connected[owner[bound]]

(***************************************************************************)
(* Properties of the extraction                                            *)
(***************************************************************************)
Min(a, b) == IF a < b THEN a ELSE b

\* sub occurs in s
Contains(s, sub) == \E k \in 1..(Len(s) - Len(sub) + 1) : SubSeq(s, k, k + Len(sub) - 1) = sub

\* the positions of the matching elements of doc, in document order
Matching(doc, hidden) ==
    SelectSeq([i \in 1..Len(doc.els) |-> i],
              LAMBDA i : (hidden \/ ~isHidden(doc.els[i])) /\ isInteractable(doc.els[i]))

\* the records of the last extraction, each with the position of its element
Returns == 1..Len(ext.at)

\* C17: extract returns exactly the first min(maxElements, k) of the k matching
\* elements, in document order: never more than maxElements records, and an
\* element that does not match is not counted.
C17_FirstMatchesInOrder ==
    ext.ran =>
      LET m == Matching(dom, ext.includeHidden)
          n == Min(ext.maxElements, Len(m))
      IN  /\ Len(ext.out) <= ext.maxElements
          /\ Len(ext.out) = n
          /\ ext.at = SubSeq(m, 1, n)
          /\ \A j \in 1..n : ext.out[j].tag = dom.els[m[j]].tagName

\* maxElements = 1 and the record returned is that of the second element: the
\* first one was scanned and did not match
C17_Reached ==
    /\ ext.ran
    /\ ext.maxElements = 1
    /\ ext.at = <<2>>
    /\ Len(ext.out) = 1

\* <button id="go" class="primary">Go</button>
IsGoButton(doc, i) ==
    /\ doc.els[i] = Element("BUTTON", <<Attr("id", "go"), Attr("class", "primary")>>, "Go", Visible)
    /\ textContent(doc, i) = "Go"

TextCandidates(sels) == SelectSeq(sels, LAMBDA s : Contains(s, "[text*="))

TextCandidate(tag, t) ==
    (IF tag = "BUTTON" THEN "button" ELSE "a") \o "[text*=\"" \o escapeQuotes(t) \o "\"]"

\* C19 as claimed: a BUTTON or A element with non-empty trimmed text of any
\* length has a text-containment candidate built from the first 30
\* characters of that text, quotes escaped; any other element has none.
C19_TextCandidateForAnyLength ==
    \A j \in Returns :
      LET tag == dom.els[ext.at[j]].tagName
          t == trim(textContent(dom, ext.at[j]))
      IN  IF tag \in {"BUTTON", "A"} /\ t # ""
            THEN \E k \in DOMAIN ext.ranked[j] :
                   ext.ranked[j][k] = TextCandidate(tag, slice(t, 0, 30))
            ELSE TextCandidates(ext.ranked[j]) = <<>>

\* C19 amended: a BUTTON or A element whose trimmed text has 1 to 30
\* characters has exactly one text-containment candidate, built from the
\* whole trimmed text with the quotes escaped; a BUTTON or A element with
\* longer or empty text, and an element of any other tag, has none.
C19_TextCandidateForShortText ==
    \A j \in Returns :
      LET tag == dom.els[ext.at[j]].tagName
          t == trim(textContent(dom, ext.at[j]))
      IN  IF tag \in {"BUTTON", "A"} /\ Len(t) >= 1 /\ Len(t) <= 30
            THEN TextCandidates(ext.ranked[j]) = <<TextCandidate(tag, t)>>
            ELSE TextCandidates(ext.ranked[j]) = <<>>

\* a button with quotes in its short text next to a link with 52 characters
C19_Reached ==
    /\ Len(ext.at) = 2
    /\ dom.els[ext.at[1]].tagName = "BUTTON"
    /\ TextCandidates(ext.ranked[1]) = <<"button[text*=\"Say \\\"hi\\\"\"]">>
    /\ dom.els[ext.at[2]].tagName = "A"
    /\ Len(trim(textContent(dom, ext.at[2]))) > 30
    /\ TextCandidates(ext.ranked[2]) = <<>>

\* the rank of a candidate, read off its text
Kind(s) ==
    CASE startsWith(s, "#") -> 1
      [] startsWith(s, "[name=") -> 2
      [] startsWith(s, "[data-") -> 3
      [] startsWith(s, ".") -> 4
      [] Contains(s, "[type=") -> 5
      [] Contains(s, "[text*=") -> 6
      [] Contains(s, ":nth-of-type(") -> 7
      [] OTHER -> 0

\* C20: the ranked list of every returned element holds the applicable
\* candidates in the order id, name, first non-empty data-*, first class token,
\* tag[type], text, nth-of-type; it is never empty; the primary selector is its
\* first entry and the alternatives are its second and third entries when
\* they exist; an element with a non-empty id x has the primary selector #x.
C20_RankedSelectors ==
    \A j \in Returns :
      LET el == dom.els[ext.at[j]]
          sels == ext.ranked[j]
          Has(kind) == \E k \in DOMAIN sels : Kind(sels[k]) = kind
      IN  /\ Len(sels) >= 1
          /\ \A k \in DOMAIN sels : Kind(sels[k]) \in 1..7
          /\ \A k \in 1..(Len(sels) - 1) : Kind(sels[k]) < Kind(sels[k + 1])
          /\ Kind(sels[Len(sels)]) = 7
          /\ Has(1) <=> getAttribute(el, "id") # ""
          /\ Has(2) <=> getAttribute(el, "name") # ""
          /\ Has(3) <=> \E k \in DOMAIN el.attributes :
                          /\ startsWith(el.attributes[k].name, "data-")
                          /\ el.attributes[k].value # ""
          /\ Has(4) <=> trim(getAttribute(el, "class")) # ""
          /\ Has(5) <=> getAttribute(el, "type") # ""
          /\ ext.out[j].selector = sels[1]
          /\ ext.out[j].alternatives = SubSeq(sels, 2, Min(3, Len(sels)))
          /\ getAttribute(el, "id") # "" => ext.out[j].selector = "#" \o getAttribute(el, "id")

\* the button whose first data-* attribute is empty, and the input with two
\* class tokens, both returned
C20_Reached ==
    /\ Len(ext.out) = 2
    /\ ext.out[1].selector = "[data-test=\"save\"]"
    /\ ext.out[1].alternatives = <<"button[type=\"submit\"]", "button[text*=\"Say \\\"hi\\\"\"]">>
    /\ ext.ranked[1][Len(ext.ranked[1])] = "button:nth-of-type(1)"
    /\ ext.out[2].selector = "[name=\"q\"]"
    /\ ext.out[2].alternatives = <<".field", "input[type=\"text\"]">>

\* the computed style the visibility filter excludes
HiddenStyle(st) == st.display = "none" \/ st.visibility = "hidden" \/ st.opacity = "0"

\* the interactable elements of doc before position i
InteractableBefore(doc, i) == {k \in 1..(i - 1) : isInteractable(doc.els[k])}

\* C21: with includeHidden = false no record is returned for an element with
\* display:none, visibility:hidden or opacity:0; with includeHidden = true
\* the filter is skipped: every interactable element, hidden or not, is
\* returned as long as fewer than maxElements records precede it.
C21_VisibilityFilter ==
    ext.ran =>
      /\ ~ext.includeHidden =>
            \A j \in Returns : ~HiddenStyle(dom.els[ext.at[j]].style)
      /\ ext.includeHidden =>
            \A i \in 1..Len(dom.els) :
              (/\ isInteractable(dom.els[i])
               /\ Cardinality(InteractableBefore(dom, i)) < ext.maxElements)
                => \E j \in Returns : ext.at[j] = i

\* includeHidden = true returned the record of a hidden element
C21_Reached ==
    /\ ext.ran
    /\ ext.includeHidden
    /\ \E j \in Returns : HiddenStyle(dom.els[ext.at[j]].style)

\* the first entry of seq that is not the empty string, "" if there is none
FirstNonEmpty(seq) ==
    LET given == SelectSeq(seq, LAMBDA x : x # "")
    IN  IF given = <<>> THEN "" ELSE given[1]

\* C22: the description of every returned record is the first non-empty of:
\* the trimmed text cut to 50 characters, aria-label, title, placeholder, alt,
\* href, value, and else the string TAG[type][role]; it is never empty.
C22_Description ==
    \A j \in Returns :
      LET el == dom.els[ext.at[j]]
          t == trim(textContent(dom, ext.at[j]))
          A(n) == getAttribute(el, n)
          synthesized == el.tagName \o (IF A("type") # "" THEN "[" \o A("type") \o "]" ELSE "")
                                    \o (IF A("role") # "" THEN "[" \o A("role") \o "]" ELSE "")
      IN  /\ ext.out[j].description =
               FirstNonEmpty(<<SubSeq(t, 1, Min(50, Len(t))), A("aria-label"), A("title"),
                               A("placeholder"), A("alt"), A("href"), A("value"),
                               synthesized>>)
          /\ ext.out[j].description # ""

\* the link with 52 characters of text and the image that has only an alt text
C22_Reached ==
    /\ Len(ext.out) = 2
    /\ ext.out[1].tag = "A"
    /\ ext.out[1].description = "Read the full terms and conditions of this \"servic"
    /\ ext.out[2].tag = "IMG"
    /\ ext.out[2].description = "Logo"

(***************************************************************************)
(* Properties of the dispatcher                                            *)
(***************************************************************************)
\* C23: between tool calls no console listener of an evaluate call is
\* registered on any page, whether the evaluations succeeded or failed.
C23_NoListenerBetweenCalls ==
    call.stage # "run" => \A pg \in PageIds : listeners[pg] = 0

\* C24: once the page has been obtained, the rejection of an engine call made
\* for the tool is returned as a failure result (isError: true) and is never
\* an exception that leaves handleToolCall.
C24_EngineFailureIsReturned ==
    call.stage = "done" /\ call.rejected => call.outcome = "failure"

\* C25: an evaluate call whose script raised, or whose page.evaluate was
\* rejected, returns a failure result (isError: true); a success result is
\* returned only for a script that ran to its end without raising.
C25_ScriptFailure ==
    call.stage = "done" /\ call.name = "puppeteer_evaluate" /\ (call.raised \/ call.rejected)
      => call.outcome = "failure"

C27_ShownNumberIsPosition ==
    call.stage = "done" =>
      \A k \in 1..Len(call.shown) : call.shown[k].number = call.shown[k].tab.index

(***************************************************************************)
(* Properties of replaced browsers and of closeTab's frame                 *)
(***************************************************************************)
\* C28: the disconnect notification of a browser that is no longer the held
\* one (ensureBrowser has launched a replacement since) leaves browser and
\* currentPage, which refer to the replacement, as they are.
C28_StaleDisconnectKeepsReplacement ==
    [][\A b \in Browsers :
         connected[b] /\ ~connected'[b] /\ pc' = pc /\ browser # 0 /\ browser # b
           => browser' = browser /\ currentPage' = currentPage]_vars

\* C29: a successful closeTab(i) whose page is not the current page closes
\* exactly the page at position i of the enumeration it made, and leaves
\* currentPage and browser as they were.
C29_ClosesOtherPageOnly ==
    [][/\ pc[1] = "cl_pages" /\ pc'[1] = "cl_close"
            /\ At(pages[loc[1].target], loc[1].tabIndex) # currentPage
          => /\ currentPage' = currentPage
             /\ browser' = browser
             /\ pages' = pages
             /\ loc'[1].page = At(pages[loc[1].target], loc[1].tabIndex)
       /\ pc[1] = "cl_close" /\ pc'[1] = "idle" /\ res'[1].st = "ok" /\ ~res[1].wasCur
          => /\ currentPage' = currentPage
             /\ browser' = browser
             /\ pages' = [pages EXCEPT ![loc[1].target] =
                            Remove(res[1].snap, At(res[1].snap, res[1].idx))]
             /\ loc[1].page = At(res[1].snap, res[1].idx)]_vars

\* closeTab(2) has closed the third of three pages while the first is current
C29_Reached ==
    /\ pc[1] = "idle"
    /\ res[1].op = "closeTab"
    /\ res[1].st = "ok"
    /\ ~res[1].wasCur
    /\ Len(res[1].snap) = 3
    /\ res[1].idx = 2
    /\ currentPage = res[1].snap[1]
    /\ browser # 0
    /\ pages[browser] = SubSeq(res[1].snap, 1, 2)

(***************************************************************************)
(* Properties of overlapping calls                                         *)
(***************************************************************************)
\* C30: when two ensureBrowser calls overlap while no usable browser and page
\* exist, at most one browser is launched, and when both have returned they
\* have returned the same page, a page of the browser held.
C30_OverlapLaunchesOnce ==
    /\ launched <= 1
    /\ (\A p \in Procs : pc[p] = "idle" /\ res[p].op = "ensureBrowser" /\ res[p].st = "ok")
         => /\ res[1].val = res[2].val
            /\ res[1].val # 0
            /\ browser # 0
            /\ owner[res[1].val] = browser

\* C31: of two closeTab calls with different valid indices that are in flight
\* together on a browser with exactly two open pages (both have enumerated
\* the same two pages), at most one closes its page: at least one of the two
\* pages is still open when both have completed.
C31_OneOfTwoClosersCloses ==
    (/\ \A p \in Procs : res[p].op = "closeTab" /\ res[p].idx \in {0, 1}
     /\ res[1].snap = res[2].snap
     /\ Len(res[1].snap) = 2
     /\ res[1].idx # res[2].idx
     /\ \A p \in Procs : pc[p] = "idle")
      => /\ ~(res[1].st = "ok" /\ res[2].st = "ok")
         /\ \E k \in 1..2 : IsOpen(res[1].snap[k])

(***************************************************************************)
(* Properties of the page handed to a tool                                 *)
(***************************************************************************)
\* C32: the page the dispatcher hands to the action of a tool (any tool but
\* the remote attach) is open at the moment it is handed over: a current
\* page that has been closed is not used again.
C32_PageOpenAtDispatch ==
    [][res'[1].op = "toolCall" /\ res'[1].st = "ok" /\ res'[1] # res[1]
         => IsOpen(res[1].val)']_vars

====
